---- MODULE Spec2Model ----
(***************************************************************************)
(* BME280 environmental logger: the I2C driver (src/src/bme280.py) and the *)
(* sampling / aggregation loop (src/src/env_logger.py).                    *)
(*                                                                         *)
(* Numbers.  Python floats are modelled in fixed point.  The driver's      *)
(* intermediate values (var1, var2, t_fine) are integers; the three        *)
(* physical outputs, the window contents and the window sums are integers  *)
(* counting thousandths (7.0 degC is 7000).  The devices and bursts the    *)
(* model draws from (Devices, Bursts) are chosen so that every division    *)
(* the compensation formulas perform is exact on them, so the model's      *)
(* values are the values the Python code computes.  The not-a-number       *)
(* float is the distinguished value NaN, absorbing under + and -.          *)
(*                                                                         *)
(* Time.  time.time() is an integer number of seconds; several ticks may   *)
(* read the same second.  The calendar is scaled down (IntervalsPerMonth     *)
(* store intervals per month, MonthsPerYear months per year).              *)
(***************************************************************************)
EXTENDS Integers, Sequences, FiniteSets, TLC

VARIABLES
    phase,                \* where the process is: driver construction, run loop, end
    drv_pc,               \* BME280.__init__: the next bus transaction, an index of InitSteps
    device,               \* the chip on the bus: identity register and calibration blocks
    busLog,               \* bus transactions of the driver's construction, in order
    cal1,                 \* _read_calibration: the 26-byte block read at 0x88
    calibration,          \* BME280.calibration (CalibrationData), None before it is read
    t_fine,               \* BME280._t_fine
    data,                 \* read_compensated: the last 8-byte burst read at REG_PRESS_MSB
    freeze_on_error,      \* Config.freeze_on_error
    window_samples,       \* Config.window_samples
    keep_running,         \* EnvLogger.keep_running
    temp_avg,             \* EnvLogger.temp_avg   (MovingAverage)
    press_avg,            \* EnvLogger.press_avg  (MovingAverage)
    hum_avg,              \* EnvLogger.hum_avg    (MovingAverage)
    last_success_minute,  \* EnvLogger.last_success_minute
    last_saved_minute,    \* EnvLogger.last_saved_minute
    now,                  \* _tick: the wall clock read at the start of the last tick
    had_success,          \* _tick: had_success of the last tick
    live,                 \* the file Config.live_file
    tmp,                  \* the file live_file.with_suffix(".tmp")
    files,                \* the CSV destination files, by path
    wl_pc,                \* _write_live: the writer's position between its file-system steps
    wl_payload,           \* _write_live: payload
    wl_restarts,          \* how many times the program was started again
    reader_saw,           \* what a reader of the live file last found: its kind
    avg,                  \* a MovingAverage on its own
    added,                \* the values passed to avg.add so far, in order
    s16_pc,               \* the round trip of _s16_le: its position
    s16_in,               \* the signed 16-bit value encoded
    s16_bytes,            \* its little-endian byte pair
    s16_out,              \* _s16_le of the byte pair
    hum_in,               \* _compensate_humidity on its own: calibration, _t_fine, adc_h
    hum_out,              \* what it returned
    csv_calls,            \* _append_csv on its own: the calls so far, in order
    sched,                \* run(): the monotonic clock and the schedule of the loop
    fault                 \* the file operation that raised OSError, if one did

-----------------------------------------------------------------------------
(* Bounds of the model. *)

\* Config.store_interval_s, scaled down.
StoreInterval == 2
\* Config.window_samples is 1 or MaxWindow.
MaxWindow == 2
\* The wall clock runs from 0 to MaxTime.
MaxTime == 4
\* The wall clock advances by at most MaxAdvance seconds between two ticks.
MaxAdvance == 2
\* The scaled-down calendar: store intervals per month, months per year.
IntervalsPerMonth == 1
MonthsPerYear == 2
\* Seconds per month: a month starts on a store-interval boundary.
MonthLen == IntervalsPerMonth * StoreInterval

-----------------------------------------------------------------------------
(* Python values. *)

\* None, where the code compares it with an int (the two minute fields).
NoMinute == -1
\* None, where it stands for an object or a float.
None == <<>>
\* float("nan")
NaN == -2147483647

\* float + and -, with not-a-number absorbing.
FAdd(a, b) == IF a = NaN \/ b = NaN THEN NaN ELSE a + b
FSub(a, b) == IF a = NaN \/ b = NaN THEN NaN ELSE a - b

Abs(x) == IF x < 0 THEN -x ELSE x

\* int(x / d): the quotient truncated towards zero.
TruncDiv(x, d) == IF x >= 0 THEN x \div d ELSE -((-x) \div d)

\* Bitwise operators on naturals.
RECURSIVE BitAnd(_, _)
BitAnd(a, b) ==
    IF a = 0 \/ b = 0 THEN 0
    ELSE (a % 2) * (b % 2) + 2 * BitAnd(a \div 2, b \div 2)

RECURSIVE BitOr(_, _)
BitOr(a, b) ==
    IF a = 0 THEN b
    ELSE IF b = 0 THEN a
    ELSE (IF a % 2 = 1 \/ b % 2 = 1 THEN 1 ELSE 0) + 2 * BitOr(a \div 2, b \div 2)

RECURSIVE BitXor(_, _)
BitXor(a, b) ==
    IF a = 0 THEN b
    ELSE IF b = 0 THEN a
    ELSE ((a + b) % 2) + 2 * BitXor(a \div 2, b \div 2)

Shl(a, n) == a * 2^n
Shr(a, n) == a \div 2^n

\* data[i:j] of a bytes object (0-based, j exclusive) as a 1-based sequence.
Slice(bytes, i, j) == SubSeq(bytes, i + 1, j)

-----------------------------------------------------------------------------
(* bme280.py: register map and decoders. *)

REG_ID == 208
REG_CTRL_HUM == 242
REG_CTRL_MEAS == 244
REG_CONFIG == 245
REG_PRESS_MSB == 247
REG_CAL1 == 136
REG_CAL2 == 225
CHIP_ID == 96

_u16_le(bytes) == BitOr(bytes[1], Shl(bytes[2], 8))

\* _s16_le without the "+ 1" of the two's-complement fold.
_s16_le_ones_complement(bytes) ==
    LET value == BitOr(bytes[1], Shl(bytes[2], 8))
    IN  IF BitAnd(value, 32768) # 0 THEN -BitXor(value, 65535) ELSE value

_s16_le(bytes) ==
    LET value == BitOr(bytes[1], Shl(bytes[2], 8))
    IN  IF BitAnd(value, 32768) # 0 THEN -(BitXor(value, 65535) + 1) ELSE value

\* The 12-bit and 8-bit sign folds of _read_calibration.
Fold12(v) == IF BitAnd(v, 2048) # 0 THEN -(BitXor(v, 4095) + 1) ELSE v
Fold8(v) == IF BitAnd(v, 128) # 0 THEN -(BitXor(v, 255) + 1) ELSE v

\* _read_calibration after the two block reads: the eighteen coefficients.
DecodeCalibration(c1, c2) ==
    [ dig_T1 |-> _u16_le(Slice(c1, 0, 2)),
      dig_T2 |-> _s16_le(Slice(c1, 2, 4)),
      dig_T3 |-> _s16_le(Slice(c1, 4, 6)),
      dig_P1 |-> _u16_le(Slice(c1, 6, 8)),
      dig_P2 |-> _s16_le(Slice(c1, 8, 10)),
      dig_P3 |-> _s16_le(Slice(c1, 10, 12)),
      dig_P4 |-> _s16_le(Slice(c1, 12, 14)),
      dig_P5 |-> _s16_le(Slice(c1, 14, 16)),
      dig_P6 |-> _s16_le(Slice(c1, 16, 18)),
      dig_P7 |-> _s16_le(Slice(c1, 18, 20)),
      dig_P8 |-> _s16_le(Slice(c1, 20, 22)),
      dig_P9 |-> _s16_le(Slice(c1, 22, 24)),
      dig_H1 |-> c1[26],
      dig_H2 |-> _s16_le(Slice(c2, 0, 2)),
      dig_H3 |-> c2[3],
      dig_H4 |-> Fold12(BitOr(Shl(c2[4], 4), BitAnd(c2[5], 15))),
      dig_H5 |-> Fold12(BitOr(Shl(c2[6], 4), Shr(c2[5], 4))),
      dig_H6 |-> Fold8(c2[7]) ]

-----------------------------------------------------------------------------
(* bme280.py: compensation.  Each operator follows its function line by     *)
(* line; a float division is the integer division it equals on the model's  *)
(* devices and bursts.  Results are in thousandths.                         *)

\* read_compensated: the three ADC counts of a burst.
AdcP(d) == BitOr(BitOr(Shl(d[1], 12), Shl(d[2], 4)), Shr(d[3], 4))
AdcT(d) == BitOr(BitOr(Shl(d[4], 12), Shl(d[5], 4)), Shr(d[6], 4))
AdcH(d) == BitOr(Shl(d[7], 8), d[8])

\* _compensate_temperature: var1 + var2, in 64ths.
TempSum64(c, adc_t) ==
    LET d    == (adc_t \div 16384) - (c.dig_T1 \div 1024)
        var1 == d * c.dig_T2 * 64
        var2 == d * d * c.dig_T3
    IN  var1 + var2

\* _compensate_temperature: the new self._t_fine, int(var1 + var2).
TFineOf(c, adc_t) == TruncDiv(TempSum64(c, adc_t), 64)

\* _compensate_temperature: the value returned, (var1 + var2) / 5120.0.
_compensate_temperature(c, adc_t) == (TempSum64(c, adc_t) * 125) \div 40960

\* _compensate_pressure returning 0.0 where the denominator is zero.
_compensate_pressure_zero(c, tf, adc_p) ==
    IF c.dig_P1 = 0 THEN 0 ELSE 101325000

\* _compensate_pressure, reading self._t_fine = tf.
_compensate_pressure(c, tf, adc_p) ==
    LET var1a == tf \div 2 - 64000
        var2a == (c.dig_P6 * var1a * var1a) \div 32768
        var2b == var2a + var1a * c.dig_P5 * 2
        var2c == var2b \div 4 + c.dig_P4 * 65536
        var1b == ((c.dig_P3 * var1a * var1a) \div 524288 + c.dig_P2 * var1a) \div 524288
        var1c == ((32768 + var1b) * c.dig_P1) \div 32768
        p1    == 1048576 - adc_p
        p2    == ((p1 - var2c \div 4096) * 6250) \div var1c
        var1d == ((c.dig_P9 * p2 * p2) \div 32768) \div 65536
        var2d == (p2 * c.dig_P8) \div 32768
        p3    == p2 + (var1d + var2d + c.dig_P7) \div 16
    IN  IF var1c = 0 THEN NaN ELSE p3 * 10

\* _compensate_humidity before its two tests: var, reading self._t_fine = tf.
HumidityVar(c, tf, adc_h) ==
    LET v0 == tf - 76800
        v1 == ((adc_h - (c.dig_H4 * 64 + (c.dig_H5 * v0) \div 16384)) * c.dig_H2 * 125)
                  \div 8192
        k6 == (c.dig_H6 * v0) \div 67108864
        k3 == (c.dig_H3 * v0) \div 67108864
        v2 == v1 * (1 + k6 * (1 + k3))
    IN  v2 - (c.dig_H1 * v2 * v2) \div 524288000

\* _compensate_humidity without the two tests on var.
_compensate_humidity_no_clamp(c, tf, adc_h) == HumidityVar(c, tf, adc_h)

\* _compensate_humidity, reading self._t_fine = tf.
_compensate_humidity(c, tf, adc_h) ==
    LET v3 == HumidityVar(c, tf, adc_h)
    IN  IF v3 > 100000 THEN 100000 ELSE IF v3 < 0 THEN 0 ELSE v3

\* read_compensated with pressure and humidity compensated before temperature:
\* they read the _t_fine an earlier cycle left.
read_compensated_stale(c, tf_old, d) ==
    [ temperature |-> _compensate_temperature(c, AdcT(d)),
      pressure    |-> _compensate_pressure(c, tf_old, AdcP(d)),
      humidity    |-> _compensate_humidity(c, tf_old, AdcH(d)),
      t_fine      |-> TFineOf(c, AdcT(d)) ]

\* read_compensated on burst d with self._t_fine = tf_old on entry: the three
\* values returned and the self._t_fine it leaves.  Temperature is compensated
\* first; pressure and humidity read the _t_fine it has just stored.
read_compensated(c, tf_old, d) ==
    LET adc_p == AdcP(d)
        adc_t == AdcT(d)
        adc_h == AdcH(d)
        temperature == _compensate_temperature(c, adc_t)
        tf == TFineOf(c, adc_t)
    IN  [ temperature |-> temperature,
          pressure    |-> _compensate_pressure(c, tf, adc_p),
          humidity    |-> _compensate_humidity(c, tf, adc_h),
          t_fine      |-> tf ]

-----------------------------------------------------------------------------
(* env_logger.py: MovingAverage. *)

\* MovingAverage(window)
MovingAverage(window) == [window |-> window, buffer |-> <<>>, sum |-> 0]

\* deque(maxlen=window).append(value)
DequeAppend(buffer, maxlen, value) ==
    IF Len(buffer) = maxlen THEN Append(Tail(buffer), value) ELSE Append(buffer, value)

\* MovingAverage.add without the subtraction of the evicted value.
add_keeps_evicted(ma, value) ==
    [ma EXCEPT !.buffer = DequeAppend(ma.buffer, ma.window, value),
               !.sum = FAdd(ma.sum, value)]

\* MovingAverage.add leaving out a value that is not a number.
add_skips_nan(ma, value) ==
    IF value = NaN THEN ma
    ELSE LET sum1 == IF Len(ma.buffer) = ma.window THEN FSub(ma.sum, ma.buffer[1])
                     ELSE ma.sum
         IN  [ma EXCEPT !.buffer = DequeAppend(ma.buffer, ma.window, value),
                        !.sum = FAdd(sum1, value)]

\* MovingAverage.add
add(ma, value) ==
    LET sum1 == IF Len(ma.buffer) = ma.window THEN FSub(ma.sum, ma.buffer[1]) ELSE ma.sum
    IN  [ma EXCEPT !.buffer = DequeAppend(ma.buffer, ma.window, value),
                   !.sum = FAdd(sum1, value)]

\* MovingAverage.mean: None, or the quotient sum / len(buffer) as the pair
\* <<sum, len(buffer)>>.
mean(ma) == IF Len(ma.buffer) = 0 THEN None ELSE <<ma.sum, Len(ma.buffer)>>

\* round(x, 3) of the quotient q = <<n, d>> of thousandths: the nearest
\* thousandth, a tie going to the even one; not-a-number stays.
Round3(q) ==
    IF q[1] = NaN THEN NaN
    ELSE LET n == q[1]
             d == q[2]
             lo == n \div d
             r == n % d
         IN  IF 2 * r < d THEN lo
             ELSE IF 2 * r > d THEN lo + 1
             ELSE IF lo % 2 = 0 THEN lo ELSE lo + 1

-----------------------------------------------------------------------------
(* env_logger.py: payload, live snapshot, CSV rows. *)

\* The calendar of datetime.fromtimestamp(now, tz=utc), scaled down.
Year(t) == t \div (MonthLen * MonthsPerYear)
Month(t) == (t % (MonthLen * MonthsPerYear)) \div MonthLen + 1

\* datetime.isoformat(): year, month, and the second within the month.
IsoFormat(t) == <<Year(t), Month(t), t % MonthLen>>

\* int(now // store_interval_s)
Minute(t) == t \div StoreInterval

\* _current_payload
_current_payload(t_avg, p_avg, h_avg, t) ==
    LET temperature == mean(t_avg)
        pressure == mean(p_avg)
        humidity == mean(h_avg)
    IN  IF temperature = None \/ pressure = None \/ humidity = None THEN None
        ELSE [ timestamp     |-> IsoFormat(t),
               epoch         |-> t,
               temperature_c |-> Round3(temperature),
               pressure_hpa  |-> Round3(pressure),
               humidity_rh   |-> Round3(humidity) ]

\* A file: absent, or present with its content, a sequence of written chunks.
Absent == [exists |-> FALSE, text |-> <<>>]
File(text) == [exists |-> TRUE, text |-> text]

\* json.dump(payload, handle): the text of the object, one chunk per key.
JsonDump(payload) ==
    << <<"timestamp", payload.timestamp>>,
       <<"epoch", payload.epoch>>,
       <<"temperature_c", payload.temperature_c>>,
       <<"pressure_hpa", payload.pressure_hpa>>,
       <<"humidity_rh", payload.humidity_rh>> >>

\* _write_live as one step: the live file it leaves.  The temporary file is
\* created, written, closed and renamed over the live file.
_write_live(payload, live_) ==
    IF payload = None THEN live_ ELSE File(JsonDump(payload))

\* f"{x:.3f}": sign, integer part, three decimals; "nan" for not-a-number.
Fmt3(m) ==
    IF m = NaN THEN <<"nan">>
    ELSE <<IF m < 0 THEN "-" ELSE "", Abs(m) \div 1000, Abs(m) % 1000>>

\* The row of _write_minute_row.
Row(payload) ==
    [ kind  |-> "row",
      cells |-> << payload.timestamp, payload.epoch, Fmt3(payload.temperature_c),
                   Fmt3(payload.pressure_hpa), Fmt3(payload.humidity_rh) >> ]

\* header of _write_minute_row
Header ==
    [ kind  |-> "header",
      cells |-> <<"timestamp", "epoch", "temperature_c", "pressure_hpa", "humidity_rh">> ]

\* A line written by handle.write(f"{text}\n").
Line(text) == [text |-> text, eol |-> "\n"]

\* _append_csv writing the header on every call.
_append_csv_header_always(file, header, row) ==
    File(file.text \o <<Line(header)>> \o <<Line(row)>>)

\* _append_csv on one file: the file it leaves.
_append_csv(file, header, row) ==
    LET needs_header == ~file.exists \/ Len(file.text) = 0
    IN  File(file.text \o (IF needs_header THEN <<Line(header)>> ELSE <<>>) \o <<Line(row)>>)

\* The paths of the CSV files: directory, year, and month (0: the year file).
Dirs == {"data", "data/BU"}
Paths == {<<d, y, m>> : d \in Dirs, y \in 0..Year(MaxTime), m \in 0..MonthsPerYear}

\* The fan-out without the two backup files.
DestinationsPrimaryOnly(t) ==
    << <<"data", Year(t), 0>>, <<"data", Year(t), Month(t)>> >>

\* primary_year, primary_month, backup_year, backup_month
Destinations(t) ==
    << <<"data", Year(t), 0>>, <<"data", Year(t), Month(t)>>,
       <<"data/BU", Year(t), 0>>, <<"data/BU", Year(t), Month(t)>> >>

\* for path in (...): self._append_csv(path, header, row)
RECURSIVE AppendAll(_, _, _, _)
AppendAll(fs, paths, header, row) ==
    IF paths = <<>> THEN fs
    ELSE AppendAll([fs EXCEPT ![Head(paths)] = _append_csv(fs[Head(paths)], header, row)],
                   Tail(paths), header, row)

\* _write_minute_row: the files it leaves.
_write_minute_row(payload, t, fs) ==
    IF payload = None THEN fs
    ELSE AppendAll(fs, Destinations(t), Header, Row(payload))

-----------------------------------------------------------------------------
(* The environment: the chips that may sit on the bus and the bursts they   *)
(* deliver.                                                                 *)

\* Calibration blocks at 0x88 (26 bytes) and 0xE1 (7 bytes):
\* T1 8192, T2 5120, T3 -5120, P1 6250, P4 -16, P5 8192, H2 16384, H4 -4, H5 16.
Cal1A == <<0, 32, 0, 20, 0, 236, 106, 24, 0, 0, 0, 0, 240, 255, 0, 32,
           0, 0, 0, 0, 0, 0, 0, 0, 0, 0>>
\* The same with P1 = 0: the pressure denominator is zero.
Cal1B == <<0, 32, 0, 20, 0, 236, 0, 0, 0, 0, 0, 0, 240, 255, 0, 32,
           0, 0, 0, 0, 0, 0, 0, 0, 0, 0>>
Cal2A == <<0, 64, 0, 255, 12, 1, 0>>

\* A BME280, a BME280 whose P1 is zero, and a chip with another identity.
Devices ==
    { [chip_id |-> 96, cal1 |-> Cal1A, cal2 |-> Cal2A],
      [chip_id |-> 96, cal1 |-> Cal1B, cal2 |-> Cal2A],
      [chip_id |-> 88, cal1 |-> Cal1A, cal2 |-> Cal2A] }

\* Bursts at REG_PRESS_MSB: (adc_p, adc_t, adc_h) = (948576, 262144, 0) and
\* (958576, 393216, 100).
Bursts == { <<231, 150, 0, 64, 0, 0, 0, 0>>, <<234, 7, 0, 96, 0, 0, 0, 100>> }

\* What a bus read does: it returns, or smbus2 raises OSError.
ReadOutcomes == {"ok", "OSError"}

\* except ValueError
CaughtValueError(exc) == exc \in {"ValueError"}

\* except Exception: the exception classes the clause catches.
Caught(exc) == exc \in {"OSError", "ValueError", "RuntimeError"}

-----------------------------------------------------------------------------
(* bme280.py: construction of the driver, one action per bus transaction.   *)

drvVars == <<device, busLog, cal1, calibration, t_fine, data>>
cfgVars == <<freeze_on_error, window_samples>>
logVars == <<keep_running, temp_avg, press_avg, hum_avg, last_success_minute,
             last_saved_minute, now, had_success>>
fsVars == <<live, tmp, files>>
wlVars == <<wl_pc, wl_payload, wl_restarts, reader_saw>>
maVars == <<avg, added>>
s16Vars == <<s16_pc, s16_in, s16_bytes, s16_out>>
extVars == <<hum_in, hum_out, csv_calls, sched, fault>>
auxVars == <<wlVars, maVars, s16Vars, extVars>>
vars == <<phase, drv_pc, drvVars, cfgVars, logVars, fsVars, auxVars>>

\* The identity register read after the calibration blocks.
InitStepsIdLate == <<"read_cal1", "read_cal2", "read_id", "configure">>

\* The first calibration block read a second time.
InitStepsCal1Twice == <<"read_id", "read_cal1", "read_cal2", "read_cal1", "configure">>

\* The bus transactions of BME280.__init__ in program order: _read_calibration
\* reads the identity register, then the two calibration blocks; _configure
\* writes the three configuration registers.
InitSteps == <<"read_id", "read_cal1", "read_cal2", "configure">>

\* EnvLogger.__init__ up to self.bus = SMBus(bus_id).
DrvOpen ==
    /\ phase = "new"
    /\ phase' = "init"
    /\ drv_pc' = 1
    /\ UNCHANGED <<drvVars, cfgVars, logVars, fsVars, auxVars>>

\* _read_calibration: chip_id = self._read_u8(REG_ID); a mismatch raises.
DrvReadId ==
    /\ phase = "init"
    /\ InitSteps[drv_pc] = "read_id"
    /\ busLog' = Append(busLog, <<"read_u8", REG_ID>>)
    /\ IF device.chip_id # CHIP_ID
       THEN phase' = "aborted" /\ drv_pc' = 0
       ELSE phase' = phase /\ drv_pc' = drv_pc + 1
    /\ UNCHANGED <<device, cal1, calibration, t_fine, data, cfgVars, logVars, fsVars, auxVars>>

\* _read_calibration: cal1 = self._read_block(0x88, 26).
DrvReadCal1 ==
    /\ phase = "init"
    /\ InitSteps[drv_pc] = "read_cal1"
    /\ busLog' = Append(busLog, <<"read_block", REG_CAL1>>)
    /\ cal1' = device.cal1
    /\ drv_pc' = drv_pc + 1
    /\ UNCHANGED <<phase, device, calibration, t_fine, data, cfgVars, logVars, fsVars, auxVars>>

\* _read_calibration: cal2 = self._read_block(0xE1, 7), and the decoding.
DrvReadCal2 ==
    /\ phase = "init"
    /\ InitSteps[drv_pc] = "read_cal2"
    /\ busLog' = Append(busLog, <<"read_block", REG_CAL2>>)
    /\ calibration' = DecodeCalibration(cal1, device.cal2)
    /\ drv_pc' = drv_pc + 1
    /\ UNCHANGED <<phase, device, cal1, t_fine, data, cfgVars, logVars, fsVars, auxVars>>

\* _configure, then self._t_fine = 0: the driver exists.
DrvConfigure ==
    /\ phase = "init"
    /\ InitSteps[drv_pc] = "configure"
    /\ busLog' = busLog \o << <<"write", REG_CTRL_HUM>>, <<"write", REG_CTRL_MEAS>>,
                              <<"write", REG_CONFIG>> >>
    /\ t_fine' = 0
    /\ phase' = "ready"
    /\ drv_pc' = 0
    /\ UNCHANGED <<device, cal1, calibration, data, cfgVars, logVars, fsVars, auxVars>>

\* A bus transaction of the construction raises OSError.
DrvBusError ==
    /\ phase = "init"
    /\ phase' = "failed"
    /\ drv_pc' = 0
    /\ UNCHANGED <<drvVars, cfgVars, logVars, fsVars, auxVars>>

-----------------------------------------------------------------------------
(* env_logger.py: EnvLogger. *)

\* EnvLogger.__init__ after the driver: the three windows and the two minutes.
LoggerInit ==
    /\ phase = "ready"
    /\ phase' = "constructed"
    /\ temp_avg' = MovingAverage(window_samples)
    /\ press_avg' = MovingAverage(window_samples)
    /\ hum_avg' = MovingAverage(window_samples)
    /\ last_success_minute' = NoMinute
    /\ last_saved_minute' = NoMinute
    /\ UNCHANGED <<drv_pc, drvVars, cfgVars, keep_running, now, had_success, fsVars, auxVars>>

\* run() up to the loop: _prepare_dirs, period, next_tick.
RunStart ==
    /\ phase = "constructed"
    /\ phase' = "running"
    /\ UNCHANGED <<drv_pc, drvVars, cfgVars, logVars, fsVars, auxVars>>

\* stop(), called by the signal handler.
Stop ==
    /\ phase \in {"constructed", "running"}
    /\ keep_running
    /\ keep_running' = FALSE
    /\ UNCHANGED <<phase, drv_pc, drvVars, cfgVars, temp_avg, press_avg, hum_avg,
                   last_success_minute, last_saved_minute, now, had_success, fsVars, auxVars>>

\* run(): the loop condition is false; self.sensor.close().
LoopExit ==
    /\ phase = "running"
    /\ ~keep_running
    /\ phase' = "stopped"
    /\ busLog' = Append(busLog, <<"close", 0>>)
    /\ UNCHANGED <<drv_pc, device, cal1, calibration, t_fine, data, cfgVars, logVars, fsVars, auxVars>>

\* The except clause with the policy test inverted.
OnFailureInverted(ma) ==
    IF freeze_on_error THEN MovingAverage(window_samples) ELSE ma

\* _tick, except clause: the window after a failed read.
OnFailure(ma) ==
    IF ~freeze_on_error THEN MovingAverage(window_samples) ELSE ma

\* The live snapshot written on every tick.
LiveDueAlways(success) == TRUE

\* _tick: if had_success.
LiveDue(success) == success

\* The minute row attempted on every tick.
SaveDueAlways(minute, saved) == TRUE

\* _tick: if minute != self.last_saved_minute.
SaveDue(minute, saved) == minute # saved

\* _tick: if self.last_success_minute == minute.
EmitDue(success_minute, minute) == success_minute = minute

\* _tick, the try statement: the burst read at REG_PRESS_MSB ends in outcome,
\* with bytes d when it returns.
TickRead(minute, outcome, d) ==
    IF outcome = "ok"
    THEN \E r \in {read_compensated(calibration, t_fine, d)} :
            /\ data' = d
            /\ t_fine' = r.t_fine
            /\ temp_avg' = add(temp_avg, r.temperature)
            /\ press_avg' = add(press_avg, r.pressure)
            /\ hum_avg' = add(hum_avg, r.humidity)
            /\ last_success_minute' = minute
            /\ had_success' = TRUE
            /\ phase' = phase
    ELSE /\ UNCHANGED <<data, t_fine, last_success_minute>>
         /\ had_success' = FALSE
         /\ IF Caught(outcome)
            THEN /\ temp_avg' = OnFailure(temp_avg)
                 /\ press_avg' = OnFailure(press_avg)
                 /\ hum_avg' = OnFailure(hum_avg)
                 /\ phase' = phase
            ELSE /\ UNCHANGED <<temp_avg, press_avg, hum_avg>>
                 /\ phase' = "crashed"

\* _tick: if had_success, self._write_live(now), as one step.
TickLive(t) ==
    live' = IF LiveDue(had_success')
            THEN _write_live(_current_payload(temp_avg', press_avg', hum_avg', t), live)
            ELSE live

\* _tick: the bucket bookkeeping and the minute row.
TickMinuteRow(minute, t) ==
    IF SaveDue(minute, last_saved_minute)
    THEN /\ last_saved_minute' = minute
         /\ files' = IF EmitDue(last_success_minute', minute)
                     THEN _write_minute_row(
                              _current_payload(temp_avg', press_avg', hum_avg', t), t, files)
                     ELSE files
    ELSE UNCHANGED <<last_saved_minute, files>>

\* _tick at wall-clock time t.
_tick(t, outcome, d) ==
    /\ now' = t
    /\ TickRead(Minute(t), outcome, d)
    /\ IF phase' = "crashed"
       THEN UNCHANGED <<live, last_saved_minute, files>>
       ELSE TickLive(t) /\ TickMinuteRow(Minute(t), t)
    /\ UNCHANGED <<drv_pc, device, busLog, cal1, calibration, cfgVars, keep_running, tmp,
                   auxVars>>

\* One iteration of the loop of run(): the wall clock has not gone back.
Tick ==
    /\ phase = "running"
    /\ keep_running
    /\ \E t \in now..(IF now + MaxAdvance < MaxTime THEN now + MaxAdvance ELSE MaxTime),
          outcome \in ReadOutcomes, d \in Bursts :
          _tick(t, outcome, d)

\* No file operation has failed.
NoFault == [op |-> "none", k |-> 0]

\* The variables of the specifications of single functions, at rest.
ExtIdle ==
    /\ hum_in = None
    /\ hum_out = None
    /\ csv_calls = <<>>
    /\ sched = None
    /\ fault = NoFault

\* The variables of the other specifications, at rest.
AuxIdle ==
    /\ ExtIdle
    /\ wl_pc = "off"
    /\ wl_payload = None
    /\ wl_restarts = 0
    /\ reader_saw = "nothing"
    /\ avg = None
    /\ added = <<>>
    /\ s16_pc = "off"
    /\ s16_in = 0
    /\ s16_bytes = <<>>
    /\ s16_out = 0

Init ==
    /\ phase = "new"
    /\ drv_pc = 0
    /\ device \in Devices
    /\ busLog = <<>>
    /\ cal1 = <<>>
    /\ calibration = None
    /\ t_fine = 0
    /\ data = <<>>
    /\ freeze_on_error \in BOOLEAN
    /\ window_samples \in {1, MaxWindow}
    /\ keep_running = TRUE
    /\ temp_avg = None
    /\ press_avg = None
    /\ hum_avg = None
    /\ last_success_minute = NoMinute
    /\ last_saved_minute = NoMinute
    /\ now = 0
    /\ had_success = FALSE
    /\ live = Absent
    /\ tmp = Absent
    /\ files = [p \in Paths |-> Absent]
    /\ AuxIdle

Next ==
    \/ DrvOpen
    \/ DrvReadId
    \/ DrvReadCal1
    \/ DrvReadCal2
    \/ DrvConfigure
    \/ DrvBusError
    \/ LoggerInit
    \/ RunStart
    \/ Stop
    \/ LoopExit
    \/ Tick

Spec == Init /\ [][Next]_vars

-----------------------------------------------------------------------------
(* Properties of the sample loop and of the driver, under Spec. *)

\* A step that is one tick: the loop was running and was not told to stop.
TickStep == phase = "running" /\ keep_running /\ keep_running'
\* A tick whose sensor read succeeded, and one whose read failed.
SuccessTickStep == TickStep /\ had_success'
FailedTickStep == TickStep /\ ~had_success'

\* The data rows of a CSV file, and the store-interval bucket of each.
RowIndexes(file) == {i \in 1..Len(file.text) : file.text[i].text.kind = "row"}
RowBucket(file, i) == Minute(file.text[i].text.cells[2])
HasRowFor(file, b) == \E i \in RowIndexes(file) : RowBucket(file, i) = b
RowsFor(file, b) == {i \in RowIndexes(file) : RowBucket(file, i) = b}

\* C1: with a wall clock that never goes back, a tick appends a record to a
\* file only if its own sensor read succeeded, the record is the one of the
\* tick's bucket, it is the only row the tick appends to that file, and the
\* file held no record of that bucket before: at most one record per bucket,
\* and none for a bucket without a successful read.
C1_AtMostOneRecordPerBucket ==
    [][\A p \in Paths :
          files'[p] # files[p] =>
             /\ SuccessTickStep
             /\ last_success_minute' = Minute(now')
             /\ ~HasRowFor(files[p], Minute(now'))
             /\ Cardinality(RowIndexes(files'[p])) = Cardinality(RowIndexes(files[p])) + 1
             /\ Cardinality(RowsFor(files'[p], Minute(now'))) = 1]_vars

\* Two buckets got their record in the year file, and a later bucket whose
\* only tick so far failed got none.
C1_Witness ==
    /\ phase = "running"
    /\ HasRowFor(files[<<"data", 0, 0>>], 0)
    /\ HasRowFor(files[<<"data", 0, 0>>], 1)
    /\ last_saved_minute = 2
    /\ last_success_minute = 1
    /\ \A p \in Paths : ~HasRowFor(files[p], 2)

\* C2: once the loop has seen an earlier bucket, a successful read in the
\* current bucket means each of the four destination files of that bucket
\* holds exactly one record for it, whether or not earlier ticks of the bucket
\* failed.
C2_RecordForEveryBucketWithSuccess ==
    ( /\ phase = "running"
      /\ last_success_minute # NoMinute
      /\ \E p \in Paths : \E b \in 0..(last_success_minute - 1) : HasRowFor(files[p], b) )
    => \A k \in 1..4 :
          Cardinality(RowsFor(files[Destinations(last_success_minute * StoreInterval)[k]],
                              last_success_minute)) = 1

\* C4: a tick whose sensor read fails leaves the loop running (the error does
\* not leave _tick), has done the bucket bookkeeping, and is followed by a
\* state in which the next tick can start.
C4_ReadFailureSwallowed ==
    [][FailedTickStep =>
          /\ phase' = "running"
          /\ keep_running'
          /\ last_saved_minute' = Minute(now')]_vars

\* The loop is running in the third bucket and no read has succeeded yet: at
\* least two ticks in a row failed.
C4_Witness ==
    /\ phase = "running"
    /\ keep_running
    /\ ~had_success
    /\ last_success_minute = NoMinute
    /\ last_saved_minute = 2

\* C5: a tick whose read fails leaves the three windows as they were under
\* the freeze policy, leaves them empty under the reset policy, and leaves
\* last_success_minute as it was under both.
C5_FailurePolicy ==
    [][FailedTickStep =>
          /\ last_success_minute' = last_success_minute
          /\ IF freeze_on_error
             THEN /\ temp_avg'.buffer = temp_avg.buffer /\ temp_avg'.sum = temp_avg.sum
                  /\ press_avg'.buffer = press_avg.buffer /\ press_avg'.sum = press_avg.sum
                  /\ hum_avg'.buffer = hum_avg.buffer /\ hum_avg'.sum = hum_avg.sum
             ELSE /\ temp_avg'.buffer = <<>> /\ temp_avg'.sum = 0
                  /\ press_avg'.buffer = <<>> /\ press_avg'.sum = 0
                  /\ hum_avg'.buffer = <<>> /\ hum_avg'.sum = 0]_vars

\* Under the reset policy a read failed after an earlier success: the windows
\* are empty and the last successful minute is still recorded.
C5_Witness ==
    /\ phase = "running"
    /\ ~freeze_on_error
    /\ ~had_success
    /\ last_success_minute # NoMinute
    /\ temp_avg.buffer = <<>>
    /\ press_avg.buffer = <<>>
    /\ hum_avg.buffer = <<>>

\* The value json.dump writes for a window: round(sum / len(buffer), 3).
SnapshotValue(ma) == Round3(<<ma.sum, Len(ma.buffer)>>)

\* C6: after a tick whose read succeeded no window is empty and the live file
\* is the snapshot of that tick: its time and the rounded means of the three
\* windows as the tick left them; a tick whose read failed leaves the live
\* file as it was.
C6_LiveSnapshotOnEverySuccess ==
    [][/\ SuccessTickStep =>
             /\ Len(temp_avg'.buffer) > 0 /\ Len(press_avg'.buffer) > 0
             /\ Len(hum_avg'.buffer) > 0
             /\ live'.exists
             /\ live'.text = << <<"timestamp", IsoFormat(now')>>,
                                <<"epoch", now'>>,
                                <<"temperature_c", SnapshotValue(temp_avg')>>,
                                <<"pressure_hpa", SnapshotValue(press_avg')>>,
                                <<"humidity_rh", SnapshotValue(hum_avg')>> >>
       /\ FailedTickStep => live' = live]_vars

\* A read failed at a later second than the last success, with the windows
\* kept: the live file still carries the earlier snapshot.
C6_Witness ==
    /\ phase = "running"
    /\ ~had_success
    /\ freeze_on_error
    /\ Len(temp_avg.buffer) > 0
    /\ live.exists
    /\ live.text[2][2] < now

\* C8: the construction reads the identity register before anything else on
\* the bus; with another chip identity it stops there: no calibration block
\* is read, no configuration register is written, no calibration is decoded,
\* and neither the driver nor the logger nor any tick comes into existence.
C8_IdentityCheckedFirst ==
    /\ busLog # <<>> => busLog[1] = <<"read_u8", REG_ID>>
    /\ device.chip_id # CHIP_ID =>
          /\ phase \in {"new", "init", "aborted", "failed"}
          /\ \A i \in 1..Len(busLog) : busLog[i] = <<"read_u8", REG_ID>>
          /\ Len(busLog) <= 1
          /\ calibration = None
          /\ cal1 = <<>>
          /\ temp_avg = None
          /\ now = 0 /\ ~had_success /\ ~live.exists

\* The construction was aborted on a chip with another identity.
C8_Witness ==
    /\ phase = "aborted"
    /\ device.chip_id # CHIP_ID
    /\ busLog = << <<"read_u8", REG_ID>> >>

\* The last element of a window's buffer.
Newest(ma) == ma.buffer[Len(ma.buffer)]

\* C9: after a tick whose read succeeded, _t_fine is the value temperature
\* compensation derives from that tick's adc_t, and the pressure and humidity
\* the tick pushed are the ones compensation gives with that _t_fine.
C9_TFineFromSameCycle ==
    (phase \in {"running", "stopped"} /\ had_success) =>
        /\ t_fine = TFineOf(calibration, AdcT(data))
        /\ Newest(temp_avg) = _compensate_temperature(calibration, AdcT(data))
        /\ Newest(press_avg) = _compensate_pressure(calibration, t_fine, AdcP(data))
        /\ Newest(hum_avg) = _compensate_humidity(calibration, t_fine, AdcH(data))

\* Two successful cycles in a row with different temperatures: the _t_fine
\* left by the first differs from the one the second needs.
C9_Witness ==
    /\ phase = "running"
    /\ had_success
    /\ Len(temp_avg.buffer) = 2
    /\ temp_avg.buffer[1] # temp_avg.buffer[2]
    /\ press_avg.sum # NaN

\* The cells of the last line of a file.
LastCells(file) == file.text[Len(file.text)].text.cells

\* C11: with dig_P1 = 0 the pressure denominator is zero; a tick whose bus
\* read returns is then a successful tick that leaves the loop running: the
\* not-a-number sentinel is the newest pressure sample and the running sum of
\* the pressure window, the pressure of the live snapshot, and is formatted as
\* "nan" in the row of every file the tick appended to.
C11_NaNPressureFlows ==
    [][\A d \in Bursts :
          ( /\ phase = "running"
            /\ keep_running
            /\ calibration.dig_P1 = 0
            /\ _tick(now', "ok", d) ) =>
             /\ had_success'
             /\ phase' = "running"
             /\ keep_running'
             /\ last_success_minute' = Minute(now')
             /\ Newest(press_avg') = NaN
             /\ press_avg'.sum = NaN
             /\ live'.exists
             /\ live'.text[4] = <<"pressure_hpa", NaN>>
             /\ \A p \in Paths :
                   files'[p] # files[p] => LastCells(files'[p])[4] = <<"nan">>]_vars

\* On a chip with dig_P1 = 0 the loop is running in a later bucket after a
\* successful tick: the sentinel is in the pressure window and the live
\* snapshot, and rows with "nan" were written for two buckets.
C11_Witness ==
    /\ phase = "running"
    /\ keep_running
    /\ calibration # None
    /\ calibration.dig_P1 = 0
    /\ had_success
    /\ press_avg.sum = NaN
    /\ live.exists
    /\ live.text[4][2] = NaN
    /\ Cardinality(RowIndexes(files[<<"data", 0, 0>>])) = 2
    /\ LastCells(files[<<"data", 0, 0>>])[4] = <<"nan">>

\* The four destination files of the time t, as a set of paths.
FanOut(t) ==
    { <<"data", Year(t), 0>>, <<"data", Year(t), Month(t)>>,
      <<"data/BU", Year(t), 0>>, <<"data/BU", Year(t), Month(t)>> }

\* C15: a tick that writes a minute record appends one more row to each of
\* the four destinations of its time (year and year-month file, primary and
\* backup), the same row in all four, and touches no other file; hence every
\* primary file and its backup counterpart always have the same content.
C15_SameRowInAllFour ==
    /\ [][files' # files =>
             /\ \A p \in Paths : files'[p] # files[p] <=> p \in FanOut(now')
             /\ \A p \in FanOut(now') :
                   /\ Cardinality(RowIndexes(files'[p])) = Cardinality(RowIndexes(files[p])) + 1
                   /\ SubSeq(files'[p].text, 1, Len(files[p].text)) = files[p].text
                   /\ \A q \in FanOut(now') :
                         files'[p].text[Len(files'[p].text)]
                            = files'[q].text[Len(files'[q].text)]]_vars
    /\ [](\A y \in 0..Year(MaxTime), m \in 0..MonthsPerYear :
             files[<<"data", y, m>>] = files[<<"data/BU", y, m>>])

\* Records of two different months of the same year were written: the year
\* file and its backup hold both rows, the file of the second month one.
C15_Witness ==
    /\ Cardinality(RowIndexes(files[<<"data", 0, 0>>])) = 2
    /\ Cardinality(RowIndexes(files[<<"data/BU", 0, 0>>])) = 2
    /\ Cardinality(RowIndexes(files[<<"data", 0, 1>>])) = 1
    /\ Cardinality(RowIndexes(files[<<"data/BU", 0, 2>>])) = 1
    /\ files[<<"data", 0, 0>>].text[2] # files[<<"data", 0, 0>>].text[3]

-----------------------------------------------------------------------------
(* MovingAverage on its own: any window size, any sequence of add calls.    *)

\* At most MaxAdds values are added.
MaxAdds == 4
\* The values added, in thousandths.
MAValues == {-500, 7000, 12000}

\* The variables of the logger, at rest.
LoggerIdle ==
    /\ phase = "off"
    /\ drv_pc = 0
    /\ device = [chip_id |-> CHIP_ID, cal1 |-> Cal1A, cal2 |-> Cal2A]
    /\ busLog = <<>>
    /\ cal1 = <<>>
    /\ calibration = None
    /\ t_fine = 0
    /\ data = <<>>
    /\ freeze_on_error = TRUE
    /\ window_samples = 1
    /\ keep_running = TRUE
    /\ temp_avg = None
    /\ press_avg = None
    /\ hum_avg = None
    /\ last_success_minute = NoMinute
    /\ last_saved_minute = NoMinute
    /\ now = 0
    /\ had_success = FALSE
    /\ live = Absent
    /\ tmp = Absent
    /\ files = [p \in Paths |-> Absent]

MAInit ==
    /\ LoggerIdle
    /\ wl_pc = "off" /\ wl_payload = None /\ wl_restarts = 0 /\ reader_saw = "nothing"
    /\ s16_pc = "off" /\ s16_in = 0 /\ s16_bytes = <<>> /\ s16_out = 0
    /\ ExtIdle
    /\ avg \in {MovingAverage(w) : w \in 1..MaxWindow}
    /\ added = <<>>

\* avg.add(v)
MAAdd ==
    /\ Len(added) < MaxAdds
    /\ \E v \in MAValues :
          /\ avg' = add(avg, v)
          /\ added' = Append(added, v)
    /\ UNCHANGED <<phase, drv_pc, drvVars, cfgVars, logVars, fsVars, wlVars, s16Vars, extVars>>

MANext == MAAdd

SpecMA == MAInit /\ [][MANext]_vars

\* The sum of a sequence of numbers.
RECURSIVE SeqSum(_)
SeqSum(q) == IF q = <<>> THEN 0 ELSE Head(q) + SeqSum(Tail(q))

\* The last min(n, W) of the values added.
Held == 
    LET n == Len(added)
        k == IF n < avg.window THEN n ELSE avg.window
    IN  SubSeq(added, n - k + 1, n)

-----------------------------------------------------------------------------
(* _s16_le on its own: every signed 16-bit value, encoded and decoded.      *)

DecInit ==
    /\ LoggerIdle
    /\ wl_pc = "off" /\ wl_payload = None /\ wl_restarts = 0 /\ reader_saw = "nothing"
    /\ avg = None /\ added = <<>>
    /\ s16_pc = "in"
    /\ s16_in \in -32768..32767
    /\ s16_bytes = <<>>
    /\ s16_out = 0
    /\ ExtIdle

\* The two's-complement little-endian byte pair of s16_in.
DecEncode ==
    /\ s16_pc = "in"
    /\ s16_bytes' = <<s16_in % 256, (s16_in % 65536) \div 256>>
    /\ s16_pc' = "bytes"
    /\ UNCHANGED <<phase, drv_pc, drvVars, cfgVars, logVars, fsVars, wlVars, maVars,
                   s16_in, s16_out, extVars>>

\* _s16_le(s16_bytes)
DecDecode ==
    /\ s16_pc = "bytes"
    /\ s16_out' = _s16_le(s16_bytes)
    /\ s16_pc' = "out"
    /\ UNCHANGED <<phase, drv_pc, drvVars, cfgVars, logVars, fsVars, wlVars, maVars,
                   s16_in, s16_bytes, extVars>>

DecNext == DecEncode \/ DecDecode

SpecDec == DecInit /\ [][DecNext]_vars

\* C10: _s16_le of the little-endian byte pair of s is s, for every s from
\* -32768 to 32767; it is low + 256 * high, less 65536 when bit 15 is set.
C10_S16RoundTrip ==
    s16_pc = "out" =>
        /\ s16_out = s16_in
        /\ s16_out = s16_bytes[1] + 256 * s16_bytes[2]
                        - (IF s16_bytes[2] >= 128 THEN 65536 ELSE 0)

\* The most negative value went through the round trip.
C10_Witness ==
    /\ s16_pc = "out"
    /\ s16_in = -32768
    /\ s16_bytes = <<0, 128>>
    /\ s16_out = -32768

-----------------------------------------------------------------------------
(* _write_live step by step: the tick of the main loop with the file-system *)
(* calls of _write_live as separate steps, a reader of the live file, and   *)
(* the death and restart of the process at any point.                       *)

\* The program is started again at most MaxRestarts times, and the clock of
\* the step-by-step run reads at most MaxLiveTime.
MaxRestarts == 1
MaxLiveTime == 2

\* self.config.live_file
LivePath == "data/live.json"

\* The temporary file written in place of the live file.
TmpPathInPlace == "data/live.json"

\* tmp_path = self.config.live_file.with_suffix(".tmp")
TmpPath == "data/live.tmp"

\* The file at a path, and the two files after the file at a path is set.
FileAt(path) == IF path = LivePath THEN live ELSE tmp
SetFile(path, file) ==
    IF path = LivePath
    THEN live' = file /\ UNCHANGED tmp
    ELSE tmp' = file /\ UNCHANGED live

LiveInit ==
    /\ phase = "running"
    /\ drv_pc = 0
    /\ device = [chip_id |-> CHIP_ID, cal1 |-> Cal1A, cal2 |-> Cal2A]
    /\ busLog = <<>>
    /\ cal1 = Cal1A
    /\ calibration = DecodeCalibration(Cal1A, Cal2A)
    /\ t_fine = 0
    /\ data = <<>>
    /\ freeze_on_error = TRUE
    /\ window_samples = 1
    /\ keep_running = TRUE
    /\ temp_avg = MovingAverage(window_samples)
    /\ press_avg = MovingAverage(window_samples)
    /\ hum_avg = MovingAverage(window_samples)
    /\ last_success_minute = NoMinute
    /\ last_saved_minute = NoMinute
    /\ now = 0
    /\ had_success = FALSE
    /\ live = Absent
    /\ tmp = Absent
    /\ files = [p \in Paths |-> Absent]
    /\ wl_pc = "idle"
    /\ wl_payload = None
    /\ wl_restarts = 0
    /\ reader_saw = "nothing"
    /\ avg = None /\ added = <<>>
    /\ s16_pc = "off" /\ s16_in = 0 /\ s16_bytes = <<>> /\ s16_out = 0
    /\ ExtIdle

\* The wall-clock times the next tick may read.
NextTimes == now..(IF now + MaxAdvance < MaxLiveTime THEN now + MaxAdvance ELSE MaxLiveTime)

\* A tick whose read fails: the whole of _tick (it does not call _write_live).
WLFailedTick ==
    /\ wl_pc = "idle"
    /\ phase = "running"
    /\ \E t \in NextTimes, d \in Bursts : _tick(t, "OSError", d)

\* A tick whose read succeeds, up to payload = self._current_payload(now) in
\* _write_live.
WLEnter ==
    /\ wl_pc = "idle"
    /\ phase = "running"
    /\ \E t \in NextTimes, d \in Bursts :
          /\ now' = t
          /\ TickRead(Minute(t), "ok", d)
          /\ wl_payload' = _current_payload(temp_avg', press_avg', hum_avg', t)
    /\ wl_pc' = IF wl_payload' = None THEN "minute" ELSE "open"
    /\ UNCHANGED <<drv_pc, device, busLog, cal1, calibration, cfgVars, keep_running,
                   last_saved_minute, fsVars, wl_restarts, reader_saw, maVars, s16Vars, extVars>>

\* tmp_path.open("w"): the temporary file is created, or emptied.
WLOpen ==
    /\ wl_pc = "open"
    /\ SetFile(TmpPath, File(<<>>))
    /\ wl_pc' = "write"
    /\ UNCHANGED <<phase, drv_pc, drvVars, cfgVars, logVars, files, wl_payload, wl_restarts,
                   reader_saw, maVars, s16Vars, extVars>>

\* json.dump: the next chunk of the text reaches the file.
WLWrite ==
    /\ wl_pc = "write"
    /\ Len(FileAt(TmpPath).text) < Len(JsonDump(wl_payload))
    /\ SetFile(TmpPath,
               File(Append(FileAt(TmpPath).text,
                           JsonDump(wl_payload)[Len(FileAt(TmpPath).text) + 1])))
    /\ UNCHANGED <<phase, drv_pc, drvVars, cfgVars, logVars, files, wlVars, maVars, s16Vars, extVars>>

\* The with statement ends: the whole text is written and the handle closed.
WLClose ==
    /\ wl_pc = "write"
    /\ Len(FileAt(TmpPath).text) = Len(JsonDump(wl_payload))
    /\ wl_pc' = "replace"
    /\ UNCHANGED <<phase, drv_pc, drvVars, cfgVars, logVars, fsVars, wl_payload, wl_restarts,
                   reader_saw, maVars, s16Vars, extVars>>

\* os.replace(tmp_path, self.config.live_file).
WLReplace ==
    /\ wl_pc = "replace"
    /\ IF TmpPath = LivePath
       THEN UNCHANGED <<live, tmp>>
       ELSE live' = tmp /\ tmp' = Absent
    /\ wl_pc' = "minute"
    /\ UNCHANGED <<phase, drv_pc, drvVars, cfgVars, logVars, files, wl_payload, wl_restarts,
                   reader_saw, maVars, s16Vars, extVars>>

\* The rest of the tick: the bucket bookkeeping and the minute row.
WLMinuteRow ==
    /\ wl_pc = "minute"
    /\ UNCHANGED <<phase, drv_pc, drvVars, cfgVars, keep_running, temp_avg, press_avg,
                   hum_avg, last_success_minute, now, had_success, live, tmp, wl_restarts,
                   reader_saw, maVars, s16Vars, extVars>>
    /\ TickMinuteRow(Minute(now), now)
    /\ wl_pc' = "idle"
    /\ wl_payload' = None

\* The process dies (a kill, an uncaught error of a file operation).
WLCrash ==
    /\ wl_pc \in {"idle", "open", "write", "replace", "minute"}
    /\ wl_pc' = "dead"
    /\ UNCHANGED <<phase, drv_pc, drvVars, cfgVars, logVars, fsVars, wl_payload, wl_restarts,
                   reader_saw, maVars, s16Vars, extVars>>

\* The program is started again: a new EnvLogger over the same files.
WLRestart ==
    /\ wl_pc = "dead"
    /\ wl_restarts < MaxRestarts
    /\ wl_restarts' = wl_restarts + 1
    /\ wl_pc' = "idle"
    /\ wl_payload' = None
    /\ t_fine' = 0
    /\ temp_avg' = MovingAverage(window_samples)
    /\ press_avg' = MovingAverage(window_samples)
    /\ hum_avg' = MovingAverage(window_samples)
    /\ last_success_minute' = NoMinute
    /\ last_saved_minute' = NoMinute
    /\ had_success' = FALSE
    /\ UNCHANGED <<phase, drv_pc, device, busLog, cal1, calibration, data, cfgVars,
                   keep_running, now, fsVars, reader_saw, maVars, s16Vars, extVars>>

\* The keys of a snapshot, in the order json.dump writes them.
SnapshotKeys == <<"timestamp", "epoch", "temperature_c", "pressure_hpa", "humidity_rh">>

\* What a reader finds in a file: no file, one whole snapshot, or anything
\* else (an empty or partly written file).
KindOf(file) ==
    IF ~file.exists THEN "absent"
    ELSE IF /\ Len(file.text) = Len(SnapshotKeys)
            /\ \A i \in 1..Len(SnapshotKeys) : file.text[i][1] = SnapshotKeys[i]
         THEN "whole"
         ELSE "torn"

\* Another process opens and reads the live file.
ReaderRead ==
    /\ reader_saw' = KindOf(live)
    /\ UNCHANGED <<phase, drv_pc, drvVars, cfgVars, logVars, fsVars, wl_pc, wl_payload,
                   wl_restarts, maVars, s16Vars, extVars>>

LiveNext ==
    \/ WLFailedTick
    \/ WLEnter
    \/ WLOpen
    \/ WLWrite
    \/ WLClose
    \/ WLReplace
    \/ WLMinuteRow
    \/ WLCrash
    \/ WLRestart
    \/ ReaderRead

SpecLive == LiveInit /\ [][LiveNext]_vars

\* C3: at every moment of every interleaving of the writer's steps, a reader
\* and the death and restart of the process, the live file is absent or holds
\* one whole snapshot, and so does what a reader read: never an empty or a
\* partly written file.
C3_LiveFileNeverTorn == KindOf(live) # "torn" /\ reader_saw # "torn"

\* The process died while the temporary file was partly written; the live
\* file holds an earlier snapshot, which a reader has read.
C3_Witness ==
    /\ wl_pc = "dead"
    /\ tmp.exists
    /\ Len(tmp.text) \in 1..(Len(SnapshotKeys) - 1)
    /\ KindOf(live) = "whole"
    /\ reader_saw = "whole"

-----------------------------------------------------------------------------
(* _compensate_humidity on its own, on calibrations and readings that drive *)
(* the formula below 0, into the range, and above 100.                      *)

\* Everything but the variables of the single-function specifications, at rest.
BaseIdle ==
    /\ LoggerIdle
    /\ wl_pc = "off" /\ wl_payload = None /\ wl_restarts = 0 /\ reader_saw = "nothing"
    /\ avg = None /\ added = <<>>
    /\ s16_pc = "off" /\ s16_in = 0 /\ s16_bytes = <<>> /\ s16_out = 0

\* The humidity coefficients tried: dig_H2 of either sign, dig_H4 of either
\* sign, dig_H5 zero or not.
HumCalibrations ==
    { [dig_H1 |-> 0, dig_H2 |-> h2, dig_H3 |-> 0, dig_H4 |-> h4, dig_H5 |-> h5, dig_H6 |-> 0] :
         h2 \in {-256, 256}, h4 \in {-4, 100}, h5 \in {0, 16} }
\* The values of self._t_fine and of adc_h tried.
HumTFines == {0, 35840, 76800, 120000}
HumAdcs == {0, 100, 300, 20000, 40000}

HumInit ==
    /\ BaseIdle
    /\ hum_in \in [c : HumCalibrations, tf : HumTFines, adc_h : HumAdcs]
    /\ hum_out = None
    /\ csv_calls = <<>>
    /\ sched = None
    /\ fault = NoFault

\* self._compensate_humidity(adc_h)
HumCompensate ==
    /\ hum_out = None
    /\ hum_out' = <<_compensate_humidity(hum_in.c, hum_in.tf, hum_in.adc_h)>>
    /\ UNCHANGED <<phase, drv_pc, drvVars, cfgVars, logVars, fsVars, wlVars, maVars, s16Vars,
                   hum_in, csv_calls, sched, fault>>

HumNext == HumCompensate

SpecHum == HumInit /\ [][HumNext]_vars

\* C12: what _compensate_humidity returns lies between 0.0 and 100.0: it is
\* exactly 100 when the formula gives more than 100, exactly 0 when it gives
\* less than 0, and the formula's own value otherwise.
C12_HumidityClamped ==
    hum_out # None =>
       LET var == HumidityVar(hum_in.c, hum_in.tf, hum_in.adc_h)
       IN  /\ hum_out[1] >= 0
           /\ hum_out[1] <= 100000
           /\ var > 100000 => hum_out[1] = 100000
           /\ var < 0 => hum_out[1] = 0
           /\ (var >= 0 /\ var <= 100000) => hum_out[1] = var

\* The formula gave more than 100 and 100 was returned.
C12_Witness ==
    /\ hum_out = <<100000>>
    /\ HumidityVar(hum_in.c, hum_in.tf, hum_in.adc_h) > 100000

-----------------------------------------------------------------------------
(* run(): the schedule of the loop on the monotonic clock, with stop()      *)
(* arriving at any point of an iteration.  A tick is its duration here.     *)

\* The period 1.0 / sample_hz, the longest a tick takes, the longest
\* time.sleep oversleeps, and the last reading of the monotonic clock.
Period == 2
MaxTickTime == 3
MaxOversleep == 1
MaxMono == 8

\* The loop condition tested as always true.
LoopConditionAlways(keep) == TRUE

\* while self.keep_running
LoopCondition(keep) == keep

\* A target wake time counted from the clock reading, not from the last target.
NextTargetFromNow(next_tick, mono) == mono + Period

\* next_tick += period
NextTarget(next_tick, mono) == next_tick + Period

\* sleep_time = next_tick - time.monotonic()
SleepTime(next_tick, mono) == next_tick - mono

\* if sleep_time > 0
Sleeps(sleep_time) == sleep_time > 0

SchedInit ==
    /\ BaseIdle
    /\ hum_in = None
    /\ hum_out = None
    /\ csv_calls = <<>>
    /\ fault = NoFault
    /\ \E m \in 0..1 :
          sched = [pc |-> "start", mono |-> m, start |-> 0, next_tick |-> 0, k |-> 0,
                   checked |-> 0, sleep_time |-> 0, slept |-> FALSE, woke |-> 0]

\* Everything but the schedule and keep_running.
schedFrame == <<phase, drv_pc, device, cal1, calibration, t_fine, data, cfgVars, temp_avg,
                press_avg, hum_avg, last_success_minute, last_saved_minute, now,
                had_success, fsVars, wlVars, maVars, s16Vars, hum_in, hum_out, csv_calls,
                fault>>

\* next_tick = time.monotonic()
SchedStart ==
    /\ sched.pc = "start"
    /\ sched' = [sched EXCEPT !.pc = "test", !.start = sched.mono, !.next_tick = sched.mono]
    /\ UNCHANGED <<schedFrame, busLog, keep_running>>

\* while self.keep_running: next_tick += period
SchedTest ==
    /\ sched.pc = "test"
    /\ IF LoopCondition(keep_running)
       THEN /\ NextTarget(sched.next_tick, sched.mono) <= MaxMono
            /\ sched' = [sched EXCEPT !.pc = "tick", !.k = sched.k + 1,
                                      !.next_tick = NextTarget(sched.next_tick, sched.mono)]
       ELSE sched' = [sched EXCEPT !.pc = "close"]
    /\ UNCHANGED <<schedFrame, busLog, keep_running>>

\* self._tick(), which takes some time; sleep_time = next_tick - time.monotonic()
SchedTick ==
    /\ sched.pc = "tick"
    /\ \E dur \in 0..MaxTickTime :
          /\ dur = 0 \/ sched.mono + dur <= MaxMono
          /\ sched' = [sched EXCEPT !.pc = "sleep", !.mono = sched.mono + dur,
                                    !.checked = sched.mono + dur,
                                    !.sleep_time = SleepTime(sched.next_tick, sched.mono + dur)]
    /\ UNCHANGED <<schedFrame, busLog, keep_running>>

\* if sleep_time > 0: time.sleep(sleep_time), which returns no earlier than asked
SchedSleep ==
    /\ sched.pc = "sleep"
    /\ IF Sleeps(sched.sleep_time)
       THEN \E over \in 0..MaxOversleep :
               /\ sched' = [sched EXCEPT !.pc = "test", !.slept = TRUE,
                                         !.mono = sched.mono + sched.sleep_time + over,
                                         !.woke = sched.mono + sched.sleep_time]
       ELSE sched' = [sched EXCEPT !.pc = "test", !.slept = FALSE, !.woke = sched.mono]
    /\ UNCHANGED <<schedFrame, busLog, keep_running>>

\* stop(), called by the signal handler at any point of the loop.
SchedStop ==
    /\ sched.pc \in {"test", "tick", "sleep"}
    /\ keep_running
    /\ keep_running' = FALSE
    /\ UNCHANGED <<schedFrame, busLog, sched>>

\* self.sensor.close(), and run() returns.
SchedClose ==
    /\ sched.pc = "close"
    /\ busLog' = Append(busLog, <<"close", 0>>)
    /\ sched' = [sched EXCEPT !.pc = "returned"]
    /\ UNCHANGED <<schedFrame, keep_running>>

SchedNext ==
    \/ SchedStart
    \/ SchedTest
    \/ SchedTick
    \/ SchedSleep
    \/ SchedStop
    \/ SchedClose

SpecSched == SchedInit /\ [][SchedNext]_vars

\* The loop is one thread that keeps executing: a step that can be taken is
\* taken.
SpecSchedFair == SpecSched /\ WF_vars(SchedNext)

\* C13: the loop condition is the only place where a stop is acted on.  An
\* iteration begins only by a loop test that found keep_running true; once an
\* iteration has begun its tick and its sleep complete whether or not stop()
\* was called meanwhile; a loop test that finds keep_running false leaves the
\* loop, run() closes the bus and returns; keep_running never becomes true
\* again, and after stop() the loop does return.
C13_StopBetweenTicks ==
    /\ [][/\ sched'.k # sched.k => (sched.pc = "test" /\ keep_running /\ sched'.pc = "tick")
          /\ (sched.pc = "test" /\ ~keep_running) => (sched'.pc = "close" /\ sched'.k = sched.k)
          /\ sched.pc = "tick" => sched'.pc \in {"tick", "sleep"}
          /\ sched.pc = "sleep" => sched'.pc \in {"sleep", "test"}
          /\ sched'.pc = "close" => (sched.pc = "test" /\ ~keep_running)
          /\ sched.pc = "close" =>
                (sched'.pc = "returned" /\ busLog' = Append(busLog, <<"close", 0>>))
          /\ ~keep_running => ~keep_running']_vars
    /\ (~keep_running) ~> (sched.pc = "returned")

\* stop() was called before the tick of the second iteration ended: the
\* iteration goes on to its sleep.
C13_Witness ==
    /\ sched # None
    /\ sched.pc = "sleep"
    /\ sched.k = 2
    /\ ~keep_running
    /\ sched.sleep_time > 0

\* C18: the target wake time of the k-th iteration is the loop's start time
\* plus k periods, however long the ticks took; at the end of an iteration the
\* loop slept until exactly that target if it lay in the future when the tick
\* ended, and did not sleep at all if it was already past.
C18_DriftCorrectingSchedule ==
    sched.pc \in {"test", "tick", "sleep", "close", "returned"} =>
       /\ sched.next_tick = sched.start + sched.k * Period
       /\ sched.pc = "sleep" => sched.sleep_time = sched.next_tick - sched.checked
       /\ (sched.pc \in {"test", "close", "returned"} /\ sched.k >= 1) =>
             IF sched.next_tick > sched.checked
             THEN sched.slept /\ sched.woke = sched.next_tick
             ELSE ~sched.slept /\ sched.woke = sched.checked /\ sched.mono = sched.checked

\* After a slow tick the third iteration ended behind its target and did not
\* sleep.
C18_Witness ==
    /\ sched # None
    /\ sched.pc = "test"
    /\ sched.k = 3
    /\ sched.checked > sched.next_tick
    /\ ~sched.slept
    /\ sched.mono = sched.checked

-----------------------------------------------------------------------------
(* _append_csv on its own: a file that starts absent or empty, and any      *)
(* sequence of calls.                                                       *)

\* At most MaxCalls calls are made.
MaxCalls == 3

\* The file the calls append to.
CsvPath == <<"data", 0, 0>>

\* The rows passed: two times, two temperatures, pressure a number or "nan".
CsvRows ==
    { Row([timestamp |-> IsoFormat(t), epoch |-> t, temperature_c |-> v,
           pressure_hpa |-> q, humidity_rh |-> 74000]) :
         t \in 0..1, v \in {-500, 7000}, q \in {NaN, 1463360} }

CsvInit ==
    /\ BaseIdle
    /\ hum_in = None
    /\ hum_out = None
    /\ sched = None
    /\ fault = NoFault
    /\ csv_calls = <<>>

\* The file is created empty by something else before the first call.
CsvTouch ==
    /\ csv_calls = <<>>
    /\ ~files[CsvPath].exists
    /\ files' = [files EXCEPT ![CsvPath] = File(<<>>)]
    /\ UNCHANGED <<phase, drv_pc, drvVars, cfgVars, logVars, live, tmp, wlVars, maVars,
                   s16Vars, extVars>>

\* _append_csv(path, header, row)
CsvAppend ==
    /\ Len(csv_calls) < MaxCalls
    /\ \E row \in CsvRows :
          /\ files' = [files EXCEPT ![CsvPath] = _append_csv(files[CsvPath], Header, row)]
          /\ csv_calls' = Append(csv_calls,
                                 [ row |-> row,
                                   was_empty |-> ~files[CsvPath].exists
                                                    \/ Len(files[CsvPath].text) = 0,
                                   lines |-> Len(files'[CsvPath].text)
                                                - Len(files[CsvPath].text) ])
    /\ UNCHANGED <<phase, drv_pc, drvVars, cfgVars, logVars, live, tmp, wlVars, maVars,
                   s16Vars, hum_in, hum_out, sched, fault>>

CsvNext == CsvTouch \/ CsvAppend

SpecCsv == CsvInit /\ [][CsvNext]_vars

\* C14: a file that started absent or empty is, after any sequence of
\* _append_csv calls, the header line followed by one line per call, in call
\* order, each ended by one newline; the header is nowhere but in the first
\* line, and a call wrote it (two lines instead of one) exactly when the file
\* was absent or empty at the call.
C14_HeaderOnceThenRows ==
    csv_calls # <<>> =>
       LET text == files[CsvPath].text
       IN  /\ files[CsvPath].exists
           /\ Len(text) = Len(csv_calls) + 1
           /\ text[1] = [text |-> Header, eol |-> "\n"]
           /\ \A i \in 1..Len(csv_calls) :
                 /\ text[i + 1] = [text |-> csv_calls[i].row, eol |-> "\n"]
                 /\ text[i + 1].text # Header
                 /\ csv_calls[i].lines = (IF csv_calls[i].was_empty THEN 2 ELSE 1)
                 /\ csv_calls[i].was_empty <=> i = 1

\* Three calls: the first wrote the header and its row, the other two one
\* row each, the last row differing from the one before.
C14_Witness ==
    /\ Len(csv_calls) = 3
    /\ csv_calls[1].lines = 2
    /\ csv_calls[2].lines = 1
    /\ csv_calls[3].row # csv_calls[2].row
    /\ Len(files[CsvPath].text) = 4

-----------------------------------------------------------------------------
(* The loop with file operations that may raise OSError: the steps of       *)
(* _write_live and the appends of _write_minute_row.                        *)

\* At most MaxFailTicks ticks are run.
MaxFailTicks == 3

\* The bus transactions of a completed BME280.__init__.
ConstructionLog ==
    << <<"read_u8", REG_ID>>, <<"read_block", REG_CAL1>>, <<"read_block", REG_CAL2>>,
       <<"write", REG_CTRL_HUM>>, <<"write", REG_CTRL_MEAS>>, <<"write", REG_CONFIG>> >>

\* The file operations that may raise: in _write_live the open of the
\* temporary file, json.dump and os.replace; in _write_minute_row the append
\* to the k-th destination.
LiveFaults == {[op |-> o, k |-> 0] : o \in {"tmp_open", "json_dump", "replace"}}
AppendFaults == {[op |-> "append", k |-> k] : k \in 1..4}

\* A failed read tried once more within the tick.
ReadAttemptsRetry(outcome) == IF outcome = "ok" THEN 1 ELSE 2

\* _tick: the calls of self.sensor.read_compensated() in one tick.
ReadAttempts(outcome) == 1

\* _write_live in which operation f raises: the temporary file it leaves, n
\* chunks of the text having reached it when json.dump raises.
_write_live_failing(payload, f, tmp_, n) ==
    IF f.op = "tmp_open" THEN tmp_
    ELSE IF f.op = "json_dump" THEN File(SubSeq(JsonDump(payload), 1, n))
    ELSE File(JsonDump(payload))

\* _write_minute_row in which the append to the k-th destination raises: the
\* loop over the destinations ends there.
_write_minute_row_failing(payload, t, fs, k) ==
    AppendAll(fs, SubSeq(Destinations(t), 1, k - 1), Header, Row(payload))

FailInit ==
    /\ phase = "running"
    /\ drv_pc = 0
    /\ device = [chip_id |-> CHIP_ID, cal1 |-> Cal1A, cal2 |-> Cal2A]
    /\ busLog = ConstructionLog
    /\ cal1 = Cal1A
    /\ calibration = DecodeCalibration(Cal1A, Cal2A)
    /\ t_fine = 0
    /\ data = <<>>
    /\ freeze_on_error \in BOOLEAN
    /\ window_samples = 1
    /\ keep_running = TRUE
    /\ temp_avg = MovingAverage(window_samples)
    /\ press_avg = MovingAverage(window_samples)
    /\ hum_avg = MovingAverage(window_samples)
    /\ last_success_minute = NoMinute
    /\ last_saved_minute = NoMinute
    /\ now = 0
    /\ had_success = FALSE
    /\ live = Absent
    /\ tmp = Absent
    /\ files = [p \in Paths |-> Absent]
    /\ wl_pc = "off" /\ wl_payload = None /\ wl_restarts = 0 /\ reader_saw = "nothing"
    /\ avg = None /\ added = <<>>
    /\ s16_pc = "off" /\ s16_in = 0 /\ s16_bytes = <<>> /\ s16_out = 0
    /\ ExtIdle

\* _tick, in which at most one file operation raises.
FTick ==
    /\ phase = "running"
    /\ keep_running
    /\ fault = NoFault
    /\ Len(busLog) < Len(ConstructionLog) + MaxFailTicks
    /\ \E t \in NextTimes, outcome \in ReadOutcomes, d \in Bursts,
          f \in {NoFault} \cup LiveFaults \cup AppendFaults, n \in 0..4 :
          /\ now' = t
          /\ busLog' = busLog \o [i \in 1..ReadAttempts(outcome) |->
                                     <<"read_block", REG_PRESS_MSB>>]
          /\ TickRead(Minute(t), outcome, d)
          /\ IF had_success' /\ f \in LiveFaults
             THEN /\ fault' = f
                  /\ f.op = "json_dump" \/ n = 0
                  /\ tmp' = _write_live_failing(
                               _current_payload(temp_avg', press_avg', hum_avg', t), f, tmp, n)
                  /\ UNCHANGED <<live, last_saved_minute, files>>
             ELSE /\ n = 0
                  /\ TickLive(t)
                  /\ tmp' = tmp
                  /\ IF /\ f \in AppendFaults
                        /\ SaveDue(Minute(t), last_saved_minute)
                        /\ EmitDue(last_success_minute', Minute(t))
                     THEN /\ fault' = f
                          /\ last_saved_minute' = Minute(t)
                          /\ files' = _write_minute_row_failing(
                                         _current_payload(temp_avg', press_avg', hum_avg', t),
                                         t, files, f.k)
                     ELSE /\ f = NoFault
                          /\ fault' = NoFault
                          /\ TickMinuteRow(Minute(t), t)
    /\ UNCHANGED <<drv_pc, device, cal1, calibration, cfgVars, keep_running, wlVars, maVars,
                   s16Vars, hum_in, hum_out, csv_calls, sched>>

\* The OSError leaves _tick, run() and main(): the process ends, without
\* self.sensor.close().
FPropagate ==
    /\ phase = "running"
    /\ fault # NoFault
    /\ phase' = "crashed"
    /\ UNCHANGED <<drv_pc, drvVars, cfgVars, logVars, fsVars, auxVars>>

FailNext == FTick \/ FPropagate

SpecFail == FailInit /\ [][FailNext]_vars

\* C16: when the append to one destination has failed during an emission, the
\* destinations before it keep the row they were given and the destinations
\* after it have received the row as well.
C16_BestEffortFanOut ==
    (phase = "crashed" /\ fault.op = "append") =>
       /\ \A j \in 1..(fault.k - 1) :
             HasRowFor(files[Destinations(now)[j]], Minute(now))
       /\ \A j \in (fault.k + 1)..4 :
             HasRowFor(files[Destinations(now)[j]], Minute(now))

\* C19: a tick reads the sensor exactly once, whether the read fails or not.
\* A file operation that raises in _write_live or in an append is not caught
\* and not tried again: the tick ends there (the live file is as it was when
\* the operation belongs to _write_live, and the bucket bookkeeping is not
\* reached), the error leaves _tick and run(), nothing more happens to the
\* bus, the files or the logger, and no later tick executes.
C19_NoRetryAndFileErrorsPropagate ==
    /\ [][(phase = "running" /\ fault = NoFault) =>
             /\ busLog' = Append(busLog, <<"read_block", REG_PRESS_MSB>>)
             /\ fault'.op \in {"tmp_open", "json_dump", "replace"} =>
                   /\ had_success'
                   /\ live' = live
                   /\ last_saved_minute' = last_saved_minute
                   /\ files' = files
             /\ fault'.op = "append" => /\ had_success'
                                        /\ last_saved_minute' = Minute(now')
                                        /\ ~HasRowFor(files'[Destinations(now')[fault'.k]],
                                                      Minute(now'))]_vars
    /\ [][(phase = "running" /\ fault # NoFault) =>
             /\ phase' = "crashed"
             /\ UNCHANGED <<busLog, logVars, fsVars, fault>>]_vars
    /\ [][phase # "crashed"]_vars
    /\ [](phase = "crashed" <=> (fault # NoFault /\ phase # "running"))

\* After one whole tick, os.replace raised in the second: the process has
\* ended, two reads were made in all, the whole new snapshot is left in the
\* temporary file and the live file still holds the first one.
C19_Witness ==
    /\ phase = "crashed"
    /\ fault.op = "replace"
    /\ Len(busLog) = Len(ConstructionLog) + 2
    /\ live.exists
    /\ tmp.exists
    /\ Len(tmp.text) = 5
    /\ tmp.text # live.text

-----------------------------------------------------------------------------
(* The calibration over the whole life of the driver, under Spec. *)

\* How many times the transaction e is in the bus log.
Count(e) == Cardinality({i \in 1..Len(busLog) : busLog[i] = e})

\* C17: each calibration block is read at most once; once the driver exists
\* each was read exactly once, after the identity and before the three
\* configuration writes; a measurement is read only in the loop, after that;
\* and the 18 coefficients, once decoded, are the decoding of the chip's two
\* blocks and are changed by no later step: not by a tick, a read, a
\* compensation, a stop or the end of the loop.
C17_CalibrationReadOnce ==
    /\ [](/\ Count(<<"read_block", REG_CAL1>>) <= 1
          /\ Count(<<"read_block", REG_CAL2>>) <= 1
          /\ phase \in {"ready", "constructed", "running", "stopped"} =>
                /\ SubSeq(busLog, 1, Len(ConstructionLog)) = ConstructionLog
                /\ calibration = DecodeCalibration(device.cal1, device.cal2)
          /\ (data # <<>> \/ had_success) => phase \in {"running", "stopped"})
    /\ [][calibration # None => calibration' = calibration]_vars

\* Two measurements were read and compensated, with different temperatures:
\* the bus log is still the one of the construction and the coefficients are
\* those decoded then.
C17_Witness ==
    /\ phase = "running"
    /\ had_success
    /\ Len(temp_avg.buffer) = 2
    /\ temp_avg.buffer[1] # temp_avg.buffer[2]
    /\ busLog = ConstructionLog
    /\ calibration = DecodeCalibration(Cal1B, Cal2A)

-----------------------------------------------------------------------------
(* The three windows together, under Spec. *)

\* C20: whenever the logger exists and no tick is in progress, the three
\* windows hold the same number of samples, at most window_samples, and
\* _current_payload has no value exactly when they are empty: a snapshot or a
\* record is built from three windows that cover the same ticks.
C20_WindowsInStep ==
    temp_avg # None =>
       /\ Len(temp_avg.buffer) = Len(press_avg.buffer)
       /\ Len(press_avg.buffer) = Len(hum_avg.buffer)
       /\ Len(temp_avg.buffer) <= window_samples
       /\ (_current_payload(temp_avg, press_avg, hum_avg, now) = None)
             <=> Len(temp_avg.buffer) = 0

\* Under the reset policy, on the chip whose pressure is not a number, two
\* records were written and a failed read in between emptied the windows:
\* each of the three holds the one sample read since.
C20_Witness ==
    /\ phase = "running"
    /\ ~freeze_on_error
    /\ window_samples = 2
    /\ had_success
    /\ Cardinality(RowIndexes(files[<<"data", 0, 0>>])) = 2
    /\ Len(temp_avg.buffer) = 1
    /\ Len(press_avg.buffer) = 1
    /\ Len(hum_avg.buffer) = 1
    /\ press_avg.sum = NaN

====
